---- MODULE Spec2Model ----
(***************************************************************************)
(* POS printer service: the print queue (PrintQueue), the retry policy of  *)
(* the printer manager (PrinterManager.print) and the three printer        *)
(* adapters (mock, USB, serial).                                           *)
(*                                                                         *)
(* Node.js runs every piece of synchronous code to completion, so one      *)
(* action is one run of code from a resumption (a call from outside, an    *)
(* I/O or timer callback, the continuation of an await) to the next await. *)
(* A state of the model is therefore always a state between two such runs. *)
(***************************************************************************)
EXTENDS Integers, Sequences, FiniteSets, TLC

\* Bounds of the model.
MaxJobs == 3
MaxRetriesBound == 2
MaxCalls == 4
MaxTextLen == 2

\* The queue and the manager pass the payload on without ever looking at it,
\* so the jobs are given pairwise different payloads, the i-th submitted job
\* the i-th of these: a run with other payloads is one of these runs with
\* the payloads renamed, and a payload handed to the wrong job always shows.
Payloads ==
    << <<72, 105>>, <<233>>, <<8364, 49>>, <<55357, 56832>>, <<27, 64>>,
       <<10, 65>> >>
TransportMsgs == {"m1"}
Interfaces == {"mock", "usb", "serial"}

\* UTF-16 code units a payload is made of: line feed, ESC, an ASCII letter, a
\* two-byte and a three-byte character, and the two halves of a surrogate
\* pair.
CodeUnits == {10, 27, 65, 233, 8364, 55357, 56832}

Texts == UNION {[1..n -> CodeUnits] : n \in 0..MaxTextLen}

\* The configurations a manager is constructed from: the interface (one of
\* the three kinds, or a value outside them) and the two addresses, each
\* empty or set.
Configs ==
    [interface : Interfaces \cup {"parallel"},
     usbName : {"", "POS-80"},
     serialPort : {"", "COM3"}]

VARIABLES
    config,       \* PrinterManager.config: interface, usbName, serialPort
    iface,        \* the adapter PrinterManager.adapter holds, "none" for null
    maxRetries,   \* PrinterConfig.maxRetries
    phase,        \* "load" | "exited" | "init" | "starting" | "listening"
    queue,        \* PrintQueue.queue: the pending jobs, head first
    processing,   \* PrintQueue.processing
    job,          \* the local `job` of processQueue while its print is awaited
    jobs,         \* payload of every job ever passed to enqueue, in order
    handle,       \* the promise returned by enqueue, per job
    printLog,     \* every invocation of printFunction, in order, with its outcome
    mgrPc,        \* where PrinterManager.print is suspended
    mgrData,      \* the `data` parameter of PrinterManager.print
    attempt,      \* the loop variable `attempt`
    lastError,    \* the local `lastError`
    mgrErr,       \* the error PrinterManager.print rejected with
    trace,        \* adapter calls and delays started by the current print
    printErrs,    \* errors of the failed adapter.print calls of the current print
    connected,    \* BaseAdapter.connected
    port,         \* SerialAdapter.port / USBAdapter.printer
    leaked,       \* transports still open that the adapter no longer refers to
    wire,         \* the last buffer handed to port.write and its payload
    aop,          \* the adapter operation being awaited, or its outcome
    aerr,         \* the error of the adapter operation that failed
    req,          \* the POST /print request the route is followed for
    status        \* the status code sent for req, 0 while none was sent

cfgVars == <<config, iface, maxRetries>>
hVars == <<req, status>>
qVars == <<queue, processing, job, jobs, handle>>
mVars == <<mgrPc, mgrData, attempt, lastError, mgrErr>>
gVars == <<trace, printErrs>>
aVars == <<connected, port, leaked, wire, aop, aerr>>
vars == <<config, iface, maxRetries, phase, queue, processing, job, jobs, handle,
          printLog, mgrPc, mgrData, attempt, lastError, mgrErr, trace,
          printErrs, connected, port, leaked, wire, aop, aerr, req, status>>

----------------------------------------------------------------------------
\* Errors. kind names the `new Error(...)` that built the message, msg the
\* message of the underlying transport error embedded in it; an exhaustion
\* error embeds the attempt count (n) and the last error (inner, msg).

NoErr == [kind |-> "none", n |-> 0, inner |-> "", msg |-> ""]

MkErr(k, i, m) == [kind |-> k, n |-> 0, inner |-> i, msg |-> m]

NotConnectedErr == MkErr("notConnected", "", "")

QueueClearedErr == MkErr("queueCleared", "", "")

ExhaustedErr(n, last) ==
    [kind |-> "exhausted", n |-> n,
     inner |-> IF last = NoErr THEN "unknown" ELSE last.kind,
     msg |-> last.msg]

NoJob == [id |-> 0, data |-> <<>>]

NoWire == [data |-> <<>>, bytes |-> <<>>]

NoReq ==
    [header |-> "none", kind |-> "noreq", key |-> "none",
     data |-> [type |-> "missing", text |-> <<>>]]

Settled == {"ok", "err"}

----------------------------------------------------------------------------
\* The adapters: the synchronous part of each method, up to its first await.
\* tr and pe are the trace and the print errors the call is appended to.

MockConnect ==
    /\ aop' = "mockConnect"
    /\ aerr' = NoErr
    /\ UNCHANGED <<connected, port, leaked, wire>>

USBConnect ==
    /\ port' = "inst"
    /\ UNCHANGED <<leaked, wire>>
    /\ aop' = "usbProbe"
    /\ aerr' = NoErr
    /\ UNCHANGED connected

SerialConnect ==
    \/ \E m \in TransportMsgs :
          /\ connected' = FALSE
          /\ aop' = "err"
          /\ aerr' = MkErr("serialCreate", "", m)
          /\ UNCHANGED <<port, leaked, wire>>
    \/ /\ port' = "closed"
       /\ leaked' = IF port = "open" THEN leaked + 1 ELSE leaked
       /\ UNCHANGED wire
       /\ aop' = "serialOpen"
       /\ aerr' = NoErr
       /\ UNCHANGED connected

AdapterConnect(tr, pe) ==
    /\ trace' = Append(tr, "connect")
    /\ printErrs' = pe
    /\ CASE iface = "mock" -> MockConnect
         [] iface = "usb" -> USBConnect
         [] iface = "serial" -> SerialConnect

MockDisconnect ==
    /\ connected' = FALSE
    /\ aop' = "ok"
    /\ aerr' = NoErr
    /\ UNCHANGED <<port, leaked, wire>>

USBDisconnect ==
    /\ connected' = FALSE
    /\ port' = "null"
    /\ UNCHANGED <<leaked, wire>>
    /\ aop' = "ok"
    /\ aerr' = NoErr

\* disconnect refusing an adapter that holds no port.
SerialDisconnectStrict ==
    IF port = "null"
      THEN /\ connected' = FALSE
           /\ aop' = "err"
           /\ aerr' = NotConnectedErr
           /\ UNCHANGED <<port, leaked, wire>>
      ELSE IF port # "open"
        THEN /\ connected' = FALSE
             /\ port' = "null"
             /\ UNCHANGED <<leaked, wire>>
             /\ aop' = "ok"
             /\ aerr' = NoErr
        ELSE /\ aop' = "serialClose"
             /\ aerr' = NoErr
             /\ UNCHANGED <<connected, port, leaked, wire>>

SerialDisconnect ==
    IF port = "null"
      THEN /\ connected' = FALSE
           /\ aop' = "ok"
           /\ aerr' = NoErr
           /\ UNCHANGED <<port, leaked, wire>>
      ELSE IF port # "open"
        THEN /\ connected' = FALSE
             /\ port' = "null"
             /\ UNCHANGED <<leaked, wire>>
             /\ aop' = "ok"
             /\ aerr' = NoErr
        ELSE /\ aop' = "serialClose"
             /\ aerr' = NoErr
             /\ UNCHANGED <<connected, port, leaked, wire>>

AdapterDisconnect(tr, pe) ==
    /\ trace' = Append(tr, "disconnect")
    /\ printErrs' = pe
    /\ CASE iface = "mock" -> MockDisconnect
         [] iface = "usb" -> USBDisconnect
         [] iface = "serial" -> SerialDisconnect

\* The checks of print without ensureConnected.
PrintPreconditionNoEnsure ==
    IF iface = "usb" /\ port = "null" THEN MkErr("noInstance", "", "")
    ELSE IF iface = "serial" /\ port # "open" THEN MkErr("portNotOpen", "", "")
    ELSE NoErr

\* ensureConnected and the other synchronous checks of print: the error the
\* call throws before any transport operation, NoErr when it goes on.
PrintPrecondition ==
    IF ~connected THEN NotConnectedErr
    ELSE IF iface = "usb" /\ port = "null" THEN MkErr("noInstance", "", "")
    ELSE IF iface = "serial" /\ port # "open" THEN MkErr("portNotOpen", "", "")
    ELSE NoErr

\* Buffer.from(data, "utf8") on a string given as its UTF-16 code units: a
\* surrogate pair is one code point of four bytes, a lone surrogate is
\* written as U+FFFD (EF BF BD).
IsHigh(u) == 55296 <= u /\ u <= 56319

IsLow(u) == 56320 <= u /\ u <= 57343

Utf8Cp(c) ==
    IF c < 128 THEN <<c>>
    ELSE IF c < 2048 THEN <<192 + (c \div 64), 128 + (c % 64)>>
    ELSE IF c < 65536
      THEN <<224 + (c \div 4096), 128 + ((c \div 64) % 64), 128 + (c % 64)>>
      ELSE <<240 + (c \div 262144), 128 + ((c \div 4096) % 64),
             128 + ((c \div 64) % 64), 128 + (c % 64)>>

RECURSIVE Utf8(_)
Utf8(s) ==
    IF s = <<>> THEN <<>>
    ELSE IF IsHigh(s[1]) /\ Len(s) >= 2 /\ IsLow(s[2])
      THEN Utf8Cp(65536 + (s[1] - 55296) * 1024 + (s[2] - 56320))
             \o Utf8(SubSeq(s, 3, Len(s)))
    ELSE IF IsHigh(s[1]) \/ IsLow(s[1])
      THEN <<239, 191, 189>> \o Utf8(Tail(s))
      ELSE Utf8Cp(s[1]) \o Utf8(Tail(s))

\* The buffer with a single newline after the text.
PrintBufferOneNewline(d) ==
    <<27, 64>> \o Utf8(d) \o Utf8(<<10>>) \o <<29, 86, 65, 0>>

\* The buffer SerialAdapter.print builds: ESC @, the text, "\n\n", GS V A 0.
PrintBuffer(d) ==
    <<27, 64>> \o Utf8(d) \o Utf8(<<10, 10>>) \o <<29, 86, 65, 0>>

PrintTransportOp ==
    CASE iface = "mock" -> "mockPrint"
      [] iface = "usb" -> "usbExecute"
      [] iface = "serial" -> "serialWrite"

AdapterPrint(d, tr, pe) ==
    /\ trace' = Append(tr, "print")
    /\ UNCHANGED <<connected, port, leaked>>
    /\ IF PrintPrecondition # NoErr
         THEN /\ aop' = "err"
              /\ aerr' = PrintPrecondition
              /\ printErrs' = Append(pe, PrintPrecondition)
              /\ UNCHANGED wire
         ELSE /\ aop' = PrintTransportOp
              /\ aerr' = NoErr
              /\ printErrs' = pe
              /\ wire' = IF iface = "serial"
                           THEN [data |-> d, bytes |-> PrintBuffer(d)]
                           ELSE wire

----------------------------------------------------------------------------
\* The adapters: completion of the awaited transport operation.

AdapterOk ==
    /\ aop' = "ok"
    /\ aerr' = NoErr

AdapterFail(e) ==
    /\ aop' = "err"
    /\ aerr' = e

\* A failed print marking the adapter disconnected.
PrintFailDisconnects(e) ==
    /\ AdapterFail(e)
    /\ printErrs' = Append(printErrs, e)
    /\ connected' = FALSE
    /\ UNCHANGED <<port, leaked, wire, trace>>

PrintFail(e) ==
    /\ AdapterFail(e)
    /\ printErrs' = Append(printErrs, e)
    /\ UNCHANGED <<connected, port, leaked, wire, trace>>

MockConnectDone ==
    /\ aop = "mockConnect"
    /\ connected' = TRUE
    /\ AdapterOk
    /\ UNCHANGED <<port, leaked, wire, cfgVars, hVars, phase, qVars, printLog, mVars, gVars>>

USBProbeDone ==
    /\ aop = "usbProbe"
    /\ \/ /\ connected' = TRUE
          /\ AdapterOk
       \/ /\ connected' = FALSE
          /\ AdapterFail(MkErr("usbConnect", "offline", ""))
       \/ \E m \in TransportMsgs :
             /\ connected' = FALSE
             /\ AdapterFail(MkErr("usbConnect", "probe", m))
    /\ UNCHANGED <<port, leaked, wire, cfgVars, hVars, phase, qVars, printLog, mVars, gVars>>

SerialOpenCb ==
    /\ aop = "serialOpen"
    /\ \/ \E m \in TransportMsgs :
             /\ connected' = FALSE
             /\ AdapterFail(MkErr("serialOpen", "", m))
             /\ UNCHANGED <<port, leaked, wire>>
       \/ /\ connected' = TRUE
          /\ port' = IF port = "null" THEN "null" ELSE "open"
          /\ leaked' = IF port = "null" THEN leaked + 1 ELSE leaked
          /\ UNCHANGED wire
          /\ AdapterOk
    /\ UNCHANGED <<cfgVars, hVars, phase, qVars, printLog, mVars, gVars>>

SerialCloseCb ==
    /\ aop = "serialClose"
    /\ connected' = FALSE
    /\ port' = "null"
    /\ UNCHANGED <<leaked, wire>>
    /\ \/ \E m \in TransportMsgs : AdapterFail(MkErr("serialClose", "", m))
       \/ AdapterOk
    /\ UNCHANGED <<cfgVars, hVars, phase, qVars, printLog, mVars, gVars>>

\* The simulated print that can fail like a device.
MockPrintDoneFlaky ==
    /\ aop = "mockPrint"
    /\ \/ \E m \in TransportMsgs : PrintFail(MkErr("mockPrint", "", m))
       \/ /\ AdapterOk
          /\ UNCHANGED <<connected, port, leaked, wire, gVars>>
    /\ UNCHANGED <<cfgVars, hVars, phase, qVars, printLog, mVars>>

MockPrintDone ==
    /\ aop = "mockPrint"
    /\ AdapterOk
    /\ UNCHANGED <<connected, port, leaked, wire, cfgVars, hVars, phase, qVars, printLog, mVars, gVars>>

USBExecuteDone ==
    /\ aop = "usbExecute"
    /\ \/ \E m \in TransportMsgs : PrintFail(MkErr("usbPrint", "", m))
       \/ /\ AdapterOk
          /\ UNCHANGED <<connected, port, leaked, wire, gVars>>
    /\ UNCHANGED <<cfgVars, hVars, phase, qVars, printLog, mVars>>

\* The write callback resolving the print itself on success, without waiting
\* for drain.
SerialWriteCbNoDrain ==
    /\ aop = "serialWrite"
    /\ \/ \E m \in TransportMsgs : PrintFail(MkErr("serialWrite", "", m))
       \/ /\ AdapterOk
          /\ UNCHANGED <<connected, port, leaked, wire, gVars>>
    /\ UNCHANGED <<cfgVars, hVars, phase, qVars, printLog, mVars>>

SerialWriteCb ==
    /\ aop = "serialWrite"
    /\ \/ \E m \in TransportMsgs : PrintFail(MkErr("serialWrite", "", m))
       \/ /\ aop' = "serialDrain"
          /\ aerr' = NoErr
          /\ UNCHANGED <<connected, port, leaked, wire, gVars>>
    /\ UNCHANGED <<cfgVars, hVars, phase, qVars, printLog, mVars>>

SerialDrainCb ==
    /\ aop = "serialDrain"
    /\ \/ \E m \in TransportMsgs : PrintFail(MkErr("serialDrain", "", m))
       \/ /\ AdapterOk
          /\ UNCHANGED <<connected, port, leaked, wire, gVars>>
    /\ UNCHANGED <<cfgVars, hVars, phase, qVars, printLog, mVars>>

----------------------------------------------------------------------------
\* PrinterManager.print

Done == {"resolved", "rejected"}

\* The outcome of the invocation that just returned or threw, written to its
\* entry of the log.
RecordOutcome(log, pc, e) ==
    IF pc \in Done /\ Len(log) > 0
      THEN [log EXCEPT ![Len(log)].res = IF pc = "resolved" THEN "ok" ELSE "err",
                       ![Len(log)].err = e]
      ELSE log

\* The retry loop with the bound taken as a number of retries to leave: one
\* attempt short.
RetryLoopOffByOne(d, a, le, tr, pe) ==
    /\ attempt' = a
    /\ lastError' = le
    /\ IF a < maxRetries
         THEN /\ mgrPc' = "attempt"
              /\ mgrErr' = NoErr
              /\ AdapterPrint(d, tr, pe)
         ELSE /\ mgrPc' = "rejected"
              /\ mgrErr' = ExhaustedErr(maxRetries, le)
              /\ trace' = tr
              /\ printErrs' = pe
              /\ aop' = "none"
              /\ aerr' = NoErr
              /\ UNCHANGED <<connected, port, leaked, wire>>

\* The head of the retry loop, reached with attempt = a and lastError = le.
\* The loop returning normally when it ends without any failed attempt.
RetryLoopVacuous(d, a, le, tr, pe) ==
    /\ attempt' = a
    /\ lastError' = le
    /\ IF a <= maxRetries
         THEN /\ mgrPc' = "attempt"
              /\ mgrErr' = NoErr
              /\ AdapterPrint(d, tr, pe)
         ELSE /\ mgrPc' = IF le = NoErr THEN "resolved" ELSE "rejected"
              /\ mgrErr' = IF le = NoErr THEN NoErr
                                         ELSE ExhaustedErr(maxRetries, le)
              /\ trace' = tr
              /\ printErrs' = pe
              /\ aop' = "none"
              /\ aerr' = NoErr
              /\ UNCHANGED <<connected, port, leaked, wire>>

RetryLoop(d, a, le, tr, pe) ==
    /\ attempt' = a
    /\ lastError' = le
    /\ IF a <= maxRetries
         THEN /\ mgrPc' = "attempt"
              /\ mgrErr' = NoErr
              /\ AdapterPrint(d, tr, pe)
         ELSE /\ mgrPc' = "rejected"
              /\ mgrErr' = ExhaustedErr(maxRetries, le)
              /\ trace' = tr
              /\ printErrs' = pe
              /\ aop' = "none"
              /\ aerr' = NoErr
              /\ UNCHANGED <<connected, port, leaked, wire>>

\* The call print(d), up to its first await.
ManagerPrint(d) ==
    /\ mgrData' = d
    /\ IF ~connected
         THEN /\ mgrPc' = "initConnect"
              /\ attempt' = 0
              /\ lastError' = NoErr
              /\ mgrErr' = NoErr
              /\ AdapterConnect(<<>>, <<>>)
         ELSE RetryLoop(d, 1, NoErr, <<>>, <<>>)

\* The initial connect with its failure swallowed: the retry loop is entered
\* whatever connect() returned.
AfterInitConnectSwallow ==
    /\ mgrPc = "initConnect"
    /\ aop \in Settled
    /\ RetryLoop(mgrData, 1, NoErr, trace, printErrs)
    /\ printLog' = RecordOutcome(printLog, mgrPc', mgrErr')
    /\ UNCHANGED <<mgrData, cfgVars, hVars, phase, qVars>>

AfterInitConnect ==
    /\ mgrPc = "initConnect"
    /\ aop \in Settled
    /\ IF aop = "ok"
         THEN RetryLoop(mgrData, 1, NoErr, trace, printErrs)
         ELSE /\ mgrPc' = "rejected"
              /\ mgrErr' = aerr
              /\ aop' = "none"
              /\ aerr' = NoErr
              /\ UNCHANGED <<attempt, lastError, connected, port, leaked, wire, gVars>>
    /\ printLog' = RecordOutcome(printLog, mgrPc', mgrErr')
    /\ UNCHANGED <<mgrData, cfgVars, hVars, phase, qVars>>

\* The attempt without the return on success: the loop goes on to the next
\* iteration.
AfterAttemptNoReturn ==
    /\ mgrPc = "attempt"
    /\ aop \in Settled
    /\ IF aop = "ok"
         THEN RetryLoop(mgrData, attempt + 1, lastError, trace, printErrs)
         ELSE /\ lastError' = aerr
              /\ aerr' = NoErr
              /\ UNCHANGED <<attempt, printErrs, connected, port, leaked, wire>>
              /\ IF attempt < maxRetries
                   THEN /\ mgrPc' = "delay"
                        /\ aop' = "timer"
                        /\ trace' = Append(trace, "delay")
                        /\ UNCHANGED mgrErr
                   ELSE /\ mgrPc' = "rejected"
                        /\ aop' = "none"
                        /\ mgrErr' = ExhaustedErr(maxRetries, aerr)
                        /\ UNCHANGED trace
    /\ printLog' = RecordOutcome(printLog, mgrPc', mgrErr')
    /\ UNCHANGED <<mgrData, cfgVars, hVars, phase, qVars>>

\* The attempt with the failure of the last allowed attempt swallowed: print
\* returns normally.
AfterAttemptSwallowLast ==
    /\ mgrPc = "attempt"
    /\ aop \in Settled
    /\ aop' = IF aop = "err" /\ attempt < maxRetries THEN "timer" ELSE "none"
    /\ aerr' = NoErr
    /\ IF aop = "ok"
         THEN /\ mgrPc' = "resolved"
              /\ UNCHANGED <<lastError, mgrErr, trace>>
         ELSE /\ lastError' = aerr
              /\ IF attempt < maxRetries
                   THEN /\ mgrPc' = "delay"
                        /\ trace' = Append(trace, "delay")
                        /\ UNCHANGED mgrErr
                   ELSE /\ mgrPc' = "resolved"
                        /\ UNCHANGED <<mgrErr, trace>>
    /\ printLog' = RecordOutcome(printLog, mgrPc', mgrErr')
    /\ UNCHANGED <<mgrData, attempt, printErrs, connected, port, leaked, wire, cfgVars, hVars,
                   phase, qVars>>

\* The attempt that also waits and reconnects after the last allowed attempt
\* failed.
AfterAttemptDelayOnLast ==
    /\ mgrPc = "attempt"
    /\ aop \in Settled
    /\ aop' = IF aop = "err" THEN "timer" ELSE "none"
    /\ aerr' = NoErr
    /\ IF aop = "ok"
         THEN /\ mgrPc' = "resolved"
              /\ UNCHANGED <<lastError, mgrErr, trace>>
         ELSE /\ lastError' = aerr
              /\ mgrPc' = "delay"
              /\ trace' = Append(trace, "delay")
              /\ UNCHANGED mgrErr
    /\ printLog' = RecordOutcome(printLog, mgrPc', mgrErr')
    /\ UNCHANGED <<mgrData, attempt, printErrs, connected, port, leaked, wire,
                   cfgVars, hVars, phase, qVars>>

\* The last failed attempt tearing the connection down before rejecting.
AfterAttemptDisconnectOnLast ==
    /\ mgrPc = "attempt"
    /\ aop \in Settled
    /\ aop' = IF aop = "err" /\ attempt < maxRetries THEN "timer" ELSE "none"
    /\ aerr' = NoErr
    /\ IF aop = "ok"
         THEN /\ mgrPc' = "resolved"
              /\ UNCHANGED <<lastError, mgrErr, trace, connected>>
         ELSE /\ lastError' = aerr
              /\ IF attempt < maxRetries
                   THEN /\ mgrPc' = "delay"
                        /\ trace' = Append(trace, "delay")
                        /\ UNCHANGED <<mgrErr, connected>>
                   ELSE /\ mgrPc' = "rejected"
                        /\ mgrErr' = ExhaustedErr(maxRetries, aerr)
                        /\ connected' = FALSE
                        /\ UNCHANGED trace
    /\ printLog' = RecordOutcome(printLog, mgrPc', mgrErr')
    /\ UNCHANGED <<mgrData, attempt, printErrs, port, leaked, wire, cfgVars, hVars,
                   phase, qVars>>

AfterAttempt ==
    /\ mgrPc = "attempt"
    /\ aop \in Settled
    /\ aop' = IF aop = "err" /\ attempt < maxRetries THEN "timer" ELSE "none"
    /\ aerr' = NoErr
    /\ IF aop = "ok"
         THEN /\ mgrPc' = "resolved"
              /\ UNCHANGED <<lastError, mgrErr, trace>>
         ELSE /\ lastError' = aerr
              /\ IF attempt < maxRetries
                   THEN /\ mgrPc' = "delay"
                        /\ trace' = Append(trace, "delay")
                        /\ UNCHANGED mgrErr
                   ELSE /\ mgrPc' = "rejected"
                        /\ mgrErr' = ExhaustedErr(maxRetries, aerr)
                        /\ UNCHANGED trace
    /\ printLog' = RecordOutcome(printLog, mgrPc', mgrErr')
    /\ UNCHANGED <<mgrData, attempt, printErrs, connected, port, leaked, wire, cfgVars, hVars,
                   phase, qVars>>

AfterDelay ==
    /\ mgrPc = "delay"
    /\ aop = "timer"
    /\ mgrPc' = "reDisconnect"
    /\ AdapterDisconnect(trace, printErrs)
    /\ UNCHANGED <<mgrData, attempt, lastError, mgrErr, cfgVars, hVars, phase, qVars,
                   printLog>>

AfterReDisconnect ==
    /\ mgrPc = "reDisconnect"
    /\ aop \in Settled
    /\ IF aop = "ok"
         THEN /\ mgrPc' = "reConnect"
              /\ AdapterConnect(trace, printErrs)
              /\ UNCHANGED <<attempt, lastError, mgrErr>>
         ELSE RetryLoop(mgrData, attempt + 1, lastError, trace, printErrs)
    /\ printLog' = RecordOutcome(printLog, mgrPc', mgrErr')
    /\ UNCHANGED <<mgrData, cfgVars, hVars, phase, qVars>>

\* The reconnect step without its catch: a failed connect() rejects the
\* print.
AfterReConnectPropagate ==
    /\ mgrPc = "reConnect"
    /\ aop \in Settled
    /\ IF aop = "ok"
         THEN RetryLoop(mgrData, attempt + 1, lastError, trace, printErrs)
         ELSE /\ mgrPc' = "rejected"
              /\ mgrErr' = aerr
              /\ aop' = "none"
              /\ aerr' = NoErr
              /\ UNCHANGED <<attempt, lastError, connected, port, leaked, wire, gVars>>
    /\ printLog' = RecordOutcome(printLog, mgrPc', mgrErr')
    /\ UNCHANGED <<mgrData, cfgVars, hVars, phase, qVars>>

AfterReConnect ==
    /\ mgrPc = "reConnect"
    /\ aop \in Settled
    /\ RetryLoop(mgrData, attempt + 1, lastError, trace, printErrs)
    /\ printLog' = RecordOutcome(printLog, mgrPc', mgrErr')
    /\ UNCHANGED <<mgrData, cfgVars, hVars, phase, qVars>>

----------------------------------------------------------------------------
\* PrintQueue

NewHandle == [st |-> "pending", err |-> NoErr, calls |-> 0]

\* job.resolve() / job.reject(e): a promise keeps its first settlement;
\* calls counts the calls of resolve and reject made on it.
Settle(h, st, e) ==
    [st |-> IF h.st = "pending" THEN st ELSE h.st,
     err |-> IF h.st = "pending" THEN e ELSE h.err,
     calls |-> h.calls + 1]

\* await this.printFunction(job.data), up to the first await of the print.
Dispatch(j) ==
    /\ job' = j
    /\ ManagerPrint(j.data)
    /\ printLog' = RecordOutcome(
                      Append(printLog, [id |-> j.id, data |-> mgrData',
                                        res |-> "running", err |-> NoErr]),
                      mgrPc', mgrErr')

\* processQueue returns, leaving the pending jobs q: the flag is cleared and
\* no print is awaited any more.
LoopExit(q) ==
    /\ queue' = q
    /\ processing' = FALSE
    /\ job' = NoJob
    /\ mgrPc' = "idle"
    /\ mgrData' = <<>>
    /\ attempt' = 0
    /\ lastError' = NoErr
    /\ mgrErr' = NoErr
    /\ trace' = <<>>
    /\ printErrs' = <<>>
    /\ aop' = "none"
    /\ aerr' = NoErr
    /\ UNCHANGED <<printLog, connected, port, leaked, wire>>

\* The loop taking the job submitted last.
ProcessLoopLifo(q) ==
    IF Len(q) > 0
      THEN /\ queue' = SubSeq(q, 1, Len(q) - 1)
           /\ processing' = TRUE
           /\ Dispatch(q[Len(q)])
      ELSE LoopExit(q)

\* The loop reading the head without removing it.
ProcessLoopPeek(q) ==
    IF Len(q) > 0
      THEN /\ queue' = q
           /\ processing' = TRUE
           /\ Dispatch(Head(q))
      ELSE LoopExit(q)

\* The loop keeping the flag only while jobs are left behind the head.
ProcessLoopFlagFromLength(q) ==
    IF Len(q) > 0
      THEN /\ queue' = Tail(q)
           /\ processing' = (Len(q) > 1)
           /\ Dispatch(Head(q))
      ELSE LoopExit(q)

\* The while loop of processQueue, entered with the pending jobs q: the head
\* is shifted and dispatched, or the loop ends and the flag is cleared (the
\* re-check that follows then finds the queue empty).
ProcessLoop(q) ==
    IF Len(q) > 0
      THEN /\ queue' = Tail(q)
           /\ processing' = TRUE
           /\ Dispatch(Head(q))
      ELSE LoopExit(q)

\* enqueue starting a dispatch loop whatever the flag says.
EnqueueUnguarded(d) ==
    /\ phase = "listening"
    /\ Len(jobs) < MaxJobs
    /\ jobs' = Append(jobs, d)
    /\ handle' = Append(handle, NewHandle)
    /\ ProcessLoop(Append(queue, [id |-> Len(jobs) + 1, data |-> d]))
    /\ UNCHANGED <<cfgVars, hVars, phase>>

\* enqueue that only appends the job.
EnqueueNoStart(d) ==
    /\ phase = "listening"
    /\ Len(jobs) < MaxJobs
    /\ jobs' = Append(jobs, d)
    /\ handle' = Append(handle, NewHandle)
    /\ queue' = Append(queue, [id |-> Len(jobs) + 1, data |-> d])
    /\ UNCHANGED <<processing, job, printLog, mVars, gVars, aVars, cfgVars, hVars,
                   phase>>

\* enqueue putting the new job in front of the pending ones.
EnqueueJumpsQueue(d) ==
    /\ phase = "listening"
    /\ Len(jobs) < MaxJobs
    /\ jobs' = Append(jobs, d)
    /\ handle' = Append(handle, NewHandle)
    /\ LET j == [id |-> Len(jobs) + 1, data |-> d]
       IN  IF ~processing
             THEN ProcessLoop(<<j>> \o queue)
             ELSE /\ queue' = <<j>> \o queue
                  /\ UNCHANGED <<processing, job, printLog, mVars, gVars, aVars>>
    /\ UNCHANGED <<cfgVars, hVars, phase>>

Enqueue(d) ==
    /\ phase = "listening"
    /\ Len(jobs) < MaxJobs
    /\ jobs' = Append(jobs, d)
    /\ handle' = Append(handle, NewHandle)
    /\ LET j == [id |-> Len(jobs) + 1, data |-> d]
       IN  IF ~processing
             THEN ProcessLoop(Append(queue, j))
             ELSE /\ queue' = Append(queue, j)
                  /\ UNCHANGED <<processing, job, printLog, mVars, gVars, aVars>>
    /\ UNCHANGED <<cfgVars, hVars, phase>>

\* The continuation resolving the handle whatever the print did.
ResumeAlwaysResolve ==
    /\ mgrPc \in Done
    /\ handle' = [handle EXCEPT ![job.id] = Settle(@, "resolved", NoErr)]
    /\ ProcessLoop(queue)
    /\ UNCHANGED <<jobs, cfgVars, hVars, phase>>

\* The continuation leaving the loop when the print failed.
ResumeBreakOnFailure ==
    /\ mgrPc \in Done
    /\ handle' = [handle EXCEPT ![job.id] =
                    IF mgrPc = "resolved"
                      THEN Settle(@, "resolved", NoErr)
                      ELSE Settle(@, "rejected", mgrErr)]
    /\ IF mgrPc = "rejected" THEN LoopExit(queue) ELSE ProcessLoop(queue)
    /\ UNCHANGED <<jobs, cfgVars, hVars, phase>>

\* The continuation of `await this.printFunction(job.data)`.
ProcessQueueResume ==
    /\ mgrPc \in Done
    /\ handle' = [handle EXCEPT ![job.id] =
                    IF mgrPc = "resolved"
                      THEN Settle(@, "resolved", NoErr)
                      ELSE Settle(@, "rejected", mgrErr)]
    /\ ProcessLoop(queue)
    /\ UNCHANGED <<jobs, cfgVars, hVars, phase>>

QueueIds(q) == {q[i].id : i \in 1..Len(q)}

\* clear rejecting the pending jobs and leaving them in the queue.
ClearKeep ==
    /\ queue' = queue
    /\ handle' = [i \in 1..Len(handle) |->
                    IF i \in QueueIds(queue)
                      THEN Settle(handle[i], "rejected", QueueClearedErr)
                      ELSE handle[i]]
    /\ UNCHANGED <<processing, job, jobs, printLog, cfgVars, hVars, phase, mVars,
                   gVars, aVars>>

\* clear rejecting the job in flight together with the pending ones.
ClearInFlight ==
    /\ queue' = <<>>
    /\ handle' = [i \in 1..Len(handle) |->
                    IF i \in QueueIds(queue) \/ i = job.id
                      THEN Settle(handle[i], "rejected", QueueClearedErr)
                      ELSE handle[i]]
    /\ UNCHANGED <<processing, job, jobs, printLog, cfgVars, hVars, phase, mVars,
                   gVars, aVars>>

\* clear emptying the queue without rejecting the jobs it removes.
ClearSilent ==
    /\ queue' = <<>>
    /\ UNCHANGED <<handle, processing, job, jobs, printLog, cfgVars, hVars, phase,
                   mVars, gVars, aVars>>

Clear ==
    /\ queue' = <<>>
    /\ handle' = [i \in 1..Len(handle) |->
                    IF i \in QueueIds(queue)
                      THEN Settle(handle[i], "rejected", QueueClearedErr)
                      ELSE handle[i]]
    /\ UNCHANGED <<processing, job, jobs, printLog, cfgVars, hVars, phase, mVars,
                   gVars, aVars>>

getQueueLength == Len(queue)

isProcessing == processing

----------------------------------------------------------------------------
\* startServer: the printer is connected before the server starts listening;
\* a failure of this connect is logged and the server listens all the same.

StartServer ==
    /\ phase = "init"
    /\ phase' = "starting"
    /\ AdapterConnect(<<>>, <<>>)
    /\ UNCHANGED <<cfgVars, hVars, qVars, printLog, mVars>>

Listen ==
    /\ phase = "starting"
    /\ aop \in Settled
    /\ phase' = "listening"
    /\ aop' = "none"
    /\ aerr' = NoErr
    /\ trace' = <<>>
    /\ UNCHANGED <<connected, port, leaked, wire, printErrs, cfgVars, hVars, qVars, printLog, mVars>>

----------------------------------------------------------------------------

\* initializeAdapter with every unknown interface treated as mock.
initializeAdapterDefaultMock(c) ==
    IF c.interface = "usb"
      THEN IF c.usbName = "" THEN "throw" ELSE "usb"
    ELSE IF c.interface = "serial"
      THEN IF c.serialPort = "" THEN "throw" ELSE "serial"
      ELSE "mock"

\* The adapter the constructor creates for a configuration, "throw" when it
\* throws.
initializeAdapter(c) ==
    IF c.interface = "mock" THEN "mock"
    ELSE IF c.interface = "usb"
      THEN IF c.usbName = "" THEN "throw" ELSE "usb"
    ELSE IF c.interface = "serial"
      THEN IF c.serialPort = "" THEN "throw" ELSE "serial"
      ELSE "throw"

\* The configuration of a manager that holds adapter i, with the address that
\* adapter needs and no other.
AddressedConfig(i) ==
    [interface |-> i,
     usbName |-> IF i = "usb" THEN "POS-80" ELSE "",
     serialPort |-> IF i = "serial" THEN "COM3" ELSE ""]

Init ==
    /\ iface \in Interfaces
    /\ config = AddressedConfig(iface)
    /\ maxRetries \in 0..MaxRetriesBound
    /\ phase = "init"
    /\ queue = <<>>
    /\ processing = FALSE
    /\ job = NoJob
    /\ jobs = <<>>
    /\ handle = <<>>
    /\ printLog = <<>>
    /\ mgrPc = "idle"
    /\ mgrData = <<>>
    /\ attempt = 0
    /\ lastError = NoErr
    /\ mgrErr = NoErr
    /\ trace = <<>>
    /\ printErrs = <<>>
    /\ connected = FALSE
    /\ port = "null"
    /\ leaked = 0
    /\ wire = NoWire
    /\ aop = "none"
    /\ aerr = NoErr
    /\ req = NoReq
    /\ status = 0

Next ==
    \/ StartServer
    \/ Listen
    \/ Enqueue(Payloads[Len(jobs) + 1])
    \/ Clear
    \/ ProcessQueueResume
    \/ AfterInitConnect
    \/ AfterAttempt
    \/ AfterDelay
    \/ AfterReDisconnect
    \/ AfterReConnect
    \/ MockConnectDone
    \/ USBProbeDone
    \/ SerialOpenCb
    \/ SerialCloseCb
    \/ MockPrintDone
    \/ USBExecuteDone
    \/ SerialWriteCb
    \/ SerialDrainCb

Spec == Init /\ [][Next]_vars

----------------------------------------------------------------------------
\* The adapter on its own: a caller that makes any sequence of connect,
\* disconnect and print calls on the adapter the configuration selects,
\* awaiting each call before it makes the next.

CallerReady ==
    /\ phase = "init"
    /\ aop \in {"none"} \cup Settled
    /\ Len(trace) < MaxCalls

CallConnect ==
    /\ CallerReady
    /\ AdapterConnect(trace, printErrs)
    /\ UNCHANGED <<cfgVars, hVars, phase, qVars, printLog, mVars>>

CallDisconnect ==
    /\ CallerReady
    /\ AdapterDisconnect(trace, printErrs)
    /\ UNCHANGED <<cfgVars, hVars, phase, qVars, printLog, mVars>>

CallPrint ==
    /\ CallerReady
    /\ AdapterPrint(Payloads[1], trace, printErrs)
    /\ UNCHANGED <<cfgVars, hVars, phase, qVars, printLog, mVars>>

AdapterNext ==
    \/ CallConnect
    \/ CallDisconnect
    \/ CallPrint
    \/ MockConnectDone
    \/ USBProbeDone
    \/ SerialOpenCb
    \/ SerialCloseCb
    \/ MockPrintDone
    \/ USBExecuteDone
    \/ SerialWriteCb
    \/ SerialDrainCb

AdapterSpec == Init /\ [][AdapterNext]_vars

\* ---- Overlapping callers of one adapter ----
\* disconnect() called while a connect() of the same adapter is still waiting
\* for its transport: with a connect pending the serial port is not open, so
\* every adapter's disconnect takes its synchronous path and resolves at
\* once; the pending connect stays pending.
DisconnectDuringConnect ==
    /\ phase = "init"
    /\ aop \in {"mockConnect", "usbProbe", "serialOpen"}
    /\ Len(trace) < MaxCalls
    /\ trace' = Append(trace, "disconnect")
    /\ connected' = FALSE
    /\ port' = IF iface = "mock" THEN port ELSE "null"
    /\ UNCHANGED <<leaked, wire, aop, aerr, printErrs>>
    /\ UNCHANGED <<cfgVars, hVars, phase, qVars, printLog, mVars>>

\* The signal handlers: the same disconnect, and the process exits in the
\* continuation of its resolution, which discards the pending callback.
ShutdownDuringConnect ==
    /\ phase = "init"
    /\ aop \in {"mockConnect", "usbProbe", "serialOpen"}
    /\ trace' = Append(trace, "disconnect")
    /\ connected' = FALSE
    /\ port' = IF iface = "mock" THEN port ELSE "null"
    /\ phase' = "exited"
    /\ aop' = "none"
    /\ UNCHANGED <<leaked, wire, aerr, printErrs>>
    /\ UNCHANGED <<cfgVars, hVars, qVars, printLog, mVars>>

OverlapNext ==
    \/ AdapterNext
    \/ DisconnectDuringConnect
    \/ ShutdownDuringConnect

OverlapSpec == Init /\ [][OverlapNext]_vars

----------------------------------------------------------------------------
\* Construction of the manager from any configuration, followed by a caller
\* of the adapter it holds.

NewPrinterManager ==
    /\ phase = "load"
    /\ iface = "none"
    /\ IF initializeAdapter(config) = "throw"
         THEN /\ phase' = "exited"
              /\ UNCHANGED iface
         ELSE /\ phase' = "init"
              /\ iface' = initializeAdapter(config)
    /\ UNCHANGED <<config, maxRetries, hVars, qVars, printLog, mVars, gVars,
                   aVars>>

ConfigInit ==
    /\ config \in Configs
    /\ iface = "none"
    /\ maxRetries \in 0..MaxRetriesBound
    /\ phase = "load"
    /\ queue = <<>>
    /\ processing = FALSE
    /\ job = NoJob
    /\ jobs = <<>>
    /\ handle = <<>>
    /\ printLog = <<>>
    /\ mgrPc = "idle"
    /\ mgrData = <<>>
    /\ attempt = 0
    /\ lastError = NoErr
    /\ mgrErr = NoErr
    /\ trace = <<>>
    /\ printErrs = <<>>
    /\ connected = FALSE
    /\ port = "null"
    /\ leaked = 0
    /\ wire = NoWire
    /\ aop = "none"
    /\ aerr = NoErr
    /\ req = NoReq
    /\ status = 0

ConfigNext ==
    \/ NewPrinterManager
    \/ AdapterNext

ConfigSpec == ConfigInit /\ [][ConfigNext]_vars

----------------------------------------------------------------------------
\* The serial adapter printing any text: a caller that holds a text drawn
\* from Texts (kept in mgrData), connects the serial adapter and prints the
\* text.

CallPrintText ==
    /\ CallerReady
    /\ AdapterPrint(mgrData, trace, printErrs)
    /\ UNCHANGED <<cfgVars, hVars, phase, qVars, printLog, mVars>>

EncodeInit ==
    /\ iface = "serial"
    /\ config = AddressedConfig(iface)
    /\ maxRetries = MaxRetriesBound
    /\ phase = "init"
    /\ queue = <<>>
    /\ processing = FALSE
    /\ job = NoJob
    /\ jobs = <<>>
    /\ handle = <<>>
    /\ printLog = <<>>
    /\ mgrPc = "idle"
    /\ mgrData \in Texts
    /\ attempt = 0
    /\ lastError = NoErr
    /\ mgrErr = NoErr
    /\ trace = <<>>
    /\ printErrs = <<>>
    /\ connected = FALSE
    /\ port = "null"
    /\ leaked = 0
    /\ wire = NoWire
    /\ aop = "none"
    /\ aerr = NoErr
    /\ req = NoReq
    /\ status = 0

EncodeNext ==
    \/ CallConnect
    \/ SerialOpenCb
    \/ CallPrintText
    \/ SerialWriteCb
    \/ SerialDrainCb

EncodeSpec == EncodeInit /\ [][EncodeNext]_vars

----------------------------------------------------------------------------
\* POST /print: one request, drawn from Requests, followed from the route to
\* its response.

\* The texts a request carries: empty, whitespace only, and two payloads.
ReqTexts == {<<>>, <<10, 32>>, <<32, 65>>, <<72, 105>>}

\* A request: the x-print-key header (absent, the print key, another value),
\* the parsed body (a string, an object, or none), the object's key field,
\* and its data field (absent, not a string, or a string).
Requests ==
    [header : {"none", "good", "bad"},
     kind : {"text", "object", "none"},
     key : {"none", "good", "bad"},
     data : [type : {"missing", "number", "string"}, text : ReqTexts]]

\* The code units String.prototype.trim removes.
WhiteSpaceUnits ==
    {9, 10, 11, 12, 13, 32, 160, 5760, 8232, 8233, 8239, 8287, 12288, 65279}
      \cup (8192..8202)

\* printData.trim().length === 0
TrimIsEmpty(t) == \A i \in 1..Len(t) : t[i] \in WhiteSpaceUnits

\* The key check accepting any x-print-key header that is present.
validatePrintKeyAnyHeader(r) ==
    \/ r.header # "none"
    \/ r.kind = "object" /\ r.key = "good"

validatePrintKey(r) ==
    \/ r.header = "good"
    \/ r.kind = "object" /\ r.key = "good"

\* The extraction of printData: ok is FALSE where the route answers 400.
ExtractPrintData(r) ==
    IF r.kind = "text"
      THEN [ok |-> TRUE, text |-> r.data.text]
    ELSE IF r.kind = "object"
      THEN IF r.data.type = "string" /\ r.data.text # <<>>
             THEN [ok |-> TRUE, text |-> r.data.text]
             ELSE [ok |-> FALSE, text |-> <<>>]
      ELSE [ok |-> FALSE, text |-> <<>>]

\* The status the route answers before it enqueues, 0 when it enqueues.
RouteStatus(r) ==
    IF ~validatePrintKey(r) THEN 401
    ELSE IF ~ExtractPrintData(r).ok THEN 400
    ELSE IF ExtractPrintData(r).text = <<>>
            \/ TrimIsEmpty(ExtractPrintData(r).text) THEN 400
    ELSE 0

\* The handler of POST /print, up to its return or its await.
PostPrint ==
    /\ phase = "listening"
    /\ req # NoReq
    /\ status = 0
    /\ jobs = <<>>
    /\ IF RouteStatus(req) # 0
         THEN /\ status' = RouteStatus(req)
              /\ UNCHANGED <<req, cfgVars, phase, qVars, printLog, mVars, gVars,
                             aVars>>
         ELSE Enqueue(ExtractPrintData(req).text)

\* The handler after `await printQueue.enqueue(printData)`.
Respond ==
    /\ req # NoReq
    /\ status = 0
    /\ Len(jobs) = 1
    /\ handle[1].st \in Done
    /\ status' = (IF handle[1].st = "resolved" THEN 200 ELSE 500)
    /\ UNCHANGED <<req, cfgVars, phase, qVars, printLog, mVars, gVars, aVars>>

HttpInit ==
    /\ iface \in Interfaces
    /\ config = AddressedConfig(iface)
    /\ maxRetries \in 0..MaxRetriesBound
    /\ phase = "init"
    /\ queue = <<>>
    /\ processing = FALSE
    /\ job = NoJob
    /\ jobs = <<>>
    /\ handle = <<>>
    /\ printLog = <<>>
    /\ mgrPc = "idle"
    /\ mgrData = <<>>
    /\ attempt = 0
    /\ lastError = NoErr
    /\ mgrErr = NoErr
    /\ trace = <<>>
    /\ printErrs = <<>>
    /\ connected = FALSE
    /\ port = "null"
    /\ leaked = 0
    /\ wire = NoWire
    /\ aop = "none"
    /\ aerr = NoErr
    /\ req \in Requests
    /\ status = 0

HttpNext ==
    \/ StartServer
    \/ Listen
    \/ PostPrint
    \/ Respond
    \/ ProcessQueueResume
    \/ AfterInitConnect
    \/ AfterAttempt
    \/ AfterDelay
    \/ AfterReDisconnect
    \/ AfterReConnect
    \/ MockConnectDone
    \/ USBProbeDone
    \/ SerialOpenCb
    \/ SerialCloseCb
    \/ MockPrintDone
    \/ USBExecuteDone
    \/ SerialWriteCb
    \/ SerialDrainCb

HttpSpec == HttpInit /\ [][HttpNext]_vars

----------------------------------------------------------------------------
\* The steps the service takes by itself: continuations, I/O callbacks and
\* timers. Node runs a continuation that is ready and the claims about
\* progress assume that every transport operation completes.
Progress ==
    \/ StartServer
    \/ Listen
    \/ ProcessQueueResume
    \/ AfterInitConnect
    \/ AfterAttempt
    \/ AfterDelay
    \/ AfterReDisconnect
    \/ AfterReConnect
    \/ MockConnectDone
    \/ USBProbeDone
    \/ SerialOpenCb
    \/ SerialCloseCb
    \/ MockPrintDone
    \/ USBExecuteDone
    \/ SerialWriteCb
    \/ SerialDrainCb

LiveSpec == Init /\ [][Next]_vars /\ WF_vars(Progress)

----------------------------------------------------------------------------
\* Helpers of the properties.

JobIds == 1..Len(jobs)

LogIdx == 1..Len(printLog)

Cleared(i) == handle[i].err = QueueClearedErr

NoJobCleared == \A i \in JobIds : ~Cleared(i)

CountOp(tr, op) == Cardinality({k \in 1..Len(tr) : tr[k] = op})

PrintCalls == CountOp(trace, "print")

----------------------------------------------------------------------------
\* C1: at most one invocation of the print function is in flight in every
\* reachable state: an invocation that is not the most recent one has
\* resolved or rejected, so a new one starts only after the previous ended.
C1_OneInFlight ==
    /\ Cardinality({k \in LogIdx : printLog[k].res = "running"}) <= 1
    /\ \A k \in LogIdx : printLog[k].res = "running" => k = Len(printLog)

\* A second invocation is running while another job waits in the queue.
C1_Witness ==
    /\ Len(printLog) >= 2
    /\ printLog[Len(printLog)].res = "running"
    /\ Len(queue) >= 1

\* C2: jobs are dispatched in FIFO order: once the print of job b has been
\* started, every job submitted before b has its handle settled, and the
\* invocations appear in the log in submission order.
C2_Fifo ==
    /\ \A k \in LogIdx : \A a \in 1..(printLog[k].id - 1) :
          handle[a].st # "pending"
    /\ \A k1, k2 \in LogIdx : k1 < k2 => printLog[k1].id < printLog[k2].id

\* Three jobs were dispatched, the later ones submitted while a print was in
\* flight, none cleared.
C2_Witness ==
    /\ Len(printLog) >= 3
    /\ NoJobCleared
    /\ printLog[Len(printLog)].res = "running"

\* C3: without clear, every submitted job is dispatched exactly once with its
\* own payload: no job appears twice in the log, every job is either pending
\* or in the log, and when the loop has stopped all of them are in the log.
C3_ExactlyOnce ==
    NoJobCleared =>
      /\ \A k \in LogIdx : /\ printLog[k].id \in JobIds
                           /\ printLog[k].data = jobs[printLog[k].id]
      /\ \A k1, k2 \in LogIdx : k1 # k2 => printLog[k1].id # printLog[k2].id
      /\ Len(printLog) + Len(queue) = Len(jobs)
      /\ (~processing => Len(printLog) = Len(jobs))

\* All the jobs the bound allows were submitted and the loop has drained,
\* having passed the payloads on in the order of submission.
C3_Witness ==
    /\ NoJobCleared
    /\ ~processing
    /\ Len(jobs) = MaxJobs
    /\ Len(printLog) = MaxJobs
    /\ \A k \in LogIdx : printLog[k].data = Payloads[k]

\* C4: a handle receives at most one resolve/reject call; it is resolved only
\* if the print made for its job succeeded and rejected with a print error
\* only if that is the error of its own print; once the continuation of the
\* print has run the handle carries exactly that outcome; and a handle that
\* changes without being cleared is the handle of the job in flight.
C4_HandleState ==
    \A i \in JobIds :
      /\ handle[i].calls <= 1
      /\ handle[i].st = "resolved" =>
            \E k \in LogIdx : printLog[k].id = i /\ printLog[k].res = "ok"
      /\ (handle[i].st = "rejected" /\ ~Cleared(i)) =>
            \E k \in LogIdx : /\ printLog[k].id = i
                              /\ printLog[k].res = "err"
                              /\ printLog[k].err = handle[i].err
      /\ \A k \in LogIdx :
            (printLog[k].id = i /\ job.id # i) =>
               /\ printLog[k].res = "ok" => handle[i].st = "resolved"
               /\ printLog[k].res = "err" =>
                     /\ handle[i].st = "rejected"
                     /\ handle[i].err = printLog[k].err

C4_OwnOutcome ==
    /\ []C4_HandleState
    /\ [][\A i \in JobIds :
            (handle'[i] # handle[i] /\ handle'[i].err # QueueClearedErr)
               => i = job.id]_vars

\* A job was rejected with the error of its own print and a job submitted
\* after it was resolved.
C4_Witness ==
    \E i, j \in JobIds :
      /\ i < j
      /\ handle[i].st = "rejected"
      /\ handle[i].err.kind = "exhausted"
      /\ handle[j].st = "resolved"

\* C5: when every transport operation completes, every job passed to enqueue
\* eventually has its handle settled.
C5_EventuallySettled ==
    \A i \in 1..MaxJobs :
       (Len(handle) >= i /\ handle[i].st = "pending")
          ~> (Len(handle) >= i /\ handle[i].st # "pending")

\* A job queued behind a job whose print failed has been dispatched and
\* resolved.
C5_Witness ==
    \E k \in LogIdx :
      /\ k > 1
      /\ printLog[k - 1].res = "err"
      /\ printLog[k].res = "ok"
      /\ handle[printLog[k].id].st = "resolved"

\* C6: while the flag is false the pending queue is empty and no print is in
\* flight.
C6_IdleMeansEmpty ==
    ~isProcessing =>
      /\ getQueueLength = 0
      /\ job = NoJob
      /\ mgrPc = "idle"
      /\ \A k \in LogIdx : printLog[k].res # "running"

\* The loop has run, settled a failed and a successful job, and has stopped.
C6_Witness ==
    /\ ~isProcessing
    /\ Len(printLog) >= 2
    /\ \E k \in LogIdx : printLog[k].res = "err"
    /\ \E k \in LogIdx : printLog[k].res = "ok"

\* C7: an enqueue made while the queue is empty and the flag false starts the
\* loop in that same call: after it the flag is true and the print of the
\* submitted job has been invoked.
C7_EnqueueStartsLoop ==
    [][(Len(jobs') = Len(jobs) + 1 /\ ~processing /\ Len(queue) = 0) =>
          /\ processing'
          /\ job'.id = Len(jobs')
          /\ Len(printLog') = Len(printLog) + 1
          /\ printLog'[Len(printLog')].id = Len(jobs')
          /\ printLog'[Len(printLog')].data = jobs'[Len(jobs')]
          /\ mgrPc' # "idle"]_vars

\* A job submitted to the idle queue after the loop had stopped is in flight.
C7_Witness ==
    /\ processing
    /\ Len(jobs) >= 2
    /\ job.id = Len(jobs)
    /\ Len(queue) = 0
    /\ \A i \in 1..(Len(jobs) - 1) : handle[i].st # "pending" /\ ~Cleared(i)
    /\ printLog[Len(printLog)].res = "running"

\* C8: clear removes all pending jobs in one step and rejects each with the
\* 'queue cleared' error, leaving the queue empty; a cleared job is rejected,
\* is no longer pending and is never passed to the print function.
C8_ClearedState ==
    \A i \in JobIds :
      Cleared(i) =>
        /\ handle[i].st = "rejected"
        /\ i \notin QueueIds(queue)
        /\ job.id # i
        /\ \A k \in LogIdx : printLog[k].id # i

C8_Clear ==
    /\ []C8_ClearedState
    /\ [][(\E i \in JobIds : Cleared(i)' /\ ~Cleared(i)) =>
            /\ Len(queue') = 0
            /\ \A i \in QueueIds(queue) :
                  handle'[i] = [st |-> "rejected", err |-> QueueClearedErr,
                                calls |-> 1]]_vars

\* Two pending jobs were cleared in one step behind the job in flight, and the
\* loop has since drained without dispatching them.
C8_Witness ==
    /\ ~processing
    /\ Len(queue) = 0
    /\ \E i, j \in JobIds :
          /\ i < j
          /\ Cleared(i)
          /\ Cleared(j)
          /\ \A k \in LogIdx : printLog[k].id < i
    /\ Len(printLog) >= 1

\* C9: clear leaves the job in flight alone: the step that clears jobs
\* changes neither the job in flight, its handle, the flag nor the print in
\* progress, and as long as a job is in flight its handle has received no
\* call and the flag is true.
C9_InFlightState ==
    job # NoJob =>
      /\ processing
      /\ handle[job.id] = NewHandle

C9_ClearKeepsInFlight ==
    /\ []C9_InFlightState
    /\ [][(\E i \in JobIds : Cleared(i)' /\ ~Cleared(i)) =>
            /\ job' = job
            /\ handle'[job.id] = handle[job.id]
            /\ processing' = processing
            /\ UNCHANGED <<printLog, mVars, gVars, aVars>>]_vars

\* The print of the job in flight has succeeded after a job submitted behind
\* it was cleared (the later job was pending, so the print was in flight then).
C9_Witness ==
    /\ job # NoJob
    /\ mgrPc = "resolved"
    /\ \E j \in JobIds : j > job.id /\ Cleared(j)

\* C10: for maxRetries >= 1, a print all of whose adapter print attempts
\* failed made exactly maxRetries attempts and rejected with the exhaustion
\* error embedding maxRetries and the error of the last attempt.
C10_ExhaustedAfterMaxRetries ==
    (/\ maxRetries >= 1
     /\ mgrPc \in Done
     /\ PrintCalls >= 1
     /\ Len(printErrs) = PrintCalls) =>
        /\ mgrPc = "rejected"
        /\ PrintCalls = maxRetries
        /\ mgrErr = ExhaustedErr(maxRetries, printErrs[Len(printErrs)])
        /\ mgrErr.n = maxRetries
        /\ mgrErr.inner = printErrs[Len(printErrs)].kind
        /\ mgrErr.msg = printErrs[Len(printErrs)].msg

\* Every attempt of a print failed, the first and the last with different
\* errors.
C10_Witness ==
    /\ maxRetries >= 2
    /\ mgrPc = "rejected"
    /\ mgrErr.kind = "exhausted"
    /\ PrintCalls = maxRetries
    /\ Len(printErrs) = maxRetries
    /\ printErrs[1] # printErrs[Len(printErrs)]

----------------------------------------------------------------------------
\* C11: when adapter.print first succeeds on attempt k, 1 <= k <= maxRetries,
\* PrinterManager.print resolves having made exactly k adapter.print calls
\* and k-1 reconnect cycles (a delay followed by disconnect(), and by
\* connect() when disconnect() did not fail), and makes no adapter call and
\* no delay after the successful attempt.
PrintSucceeded == mgrPc = "attempt" /\ aop = "ok"

C11_Counts ==
    LET k == Len(printErrs) + 1
    IN  (PrintSucceeded \/ mgrPc = "resolved") =>
          /\ 1 <= k /\ k <= maxRetries
          /\ attempt = k
          /\ PrintCalls = k
          /\ CountOp(trace, "delay") = k - 1
          /\ CountOp(trace, "disconnect") = k - 1
          /\ CountOp(trace, "connect") <=
                 k - 1 + (IF trace[1] = "connect" THEN 1 ELSE 0)
          /\ trace[Len(trace)] = "print"

C11_SuccessReturns ==
    /\ []C11_Counts
    /\ [][ /\ (PrintSucceeded /\ ~PrintSucceeded' =>
                 /\ mgrPc' = "resolved"
                 /\ aop' = "none"
                 /\ UNCHANGED <<trace, printErrs, connected, port>>)
            /\ (mgrPc = "resolved" /\ mgrPc' = "resolved" =>
                 UNCHANGED <<trace, printErrs, aVars>>) ]_vars

\* A print that resolved on its second attempt.
C11_Witness ==
    /\ mgrPc = "resolved"
    /\ Len(printErrs) = 1
    /\ PrintCalls = 2

----------------------------------------------------------------------------
\* C12: PrinterManager.print entered while the adapter reports not connected
\* attempts exactly one connect() before any adapter.print; when that connect
\* fails its error goes to the caller unchanged, the retry loop is not
\* entered and adapter.print is not called.  Entered while the adapter
\* reports connected, it makes no connect() before the first attempt.
PrintEntered == Len(printLog') = Len(printLog) + 1

\* The positions of the trace before the first adapter.print.
BeforeFirstPrint ==
    {i \in 1..Len(trace) : \A j \in 1..i : trace[j] # "print"}

C12_OneConnectFirst ==
    /\ \A i \in BeforeFirstPrint : trace[i] = "connect" => i = 1
    /\ mgrPc = "initConnect" => trace = <<"connect">> /\ attempt = 0

C12_InitialConnect ==
    /\ []C12_OneConnectFirst
    /\ [][ /\ (PrintEntered /\ ~connected =>
                 mgrPc' = "initConnect" /\ trace' = <<"connect">>)
            /\ (PrintEntered /\ connected =>
                 mgrPc' # "initConnect" /\ trace' \in {<<>>, <<"print">>})
            /\ (mgrPc = "initConnect" /\ aop = "err" /\ mgrPc' # mgrPc =>
                 /\ mgrPc' = "rejected"
                 /\ mgrErr' = aerr
                 /\ attempt' = 0
                 /\ trace' = <<"connect">>
                 /\ printErrs' = <<>>)
            /\ (mgrPc = "initConnect" /\ aop = "ok" /\ mgrPc' # mgrPc =>
                 attempt' = 1 /\ CountOp(trace', "connect") = 1) ]_vars

\* A print rejected with the error of its failed initial connect, the
\* adapter's print never called.
C12_Witness ==
    /\ mgrPc = "rejected"
    /\ mgrErr.kind \in {"usbConnect", "serialOpen", "serialCreate"}
    /\ trace = <<"connect">>
    /\ job # NoJob
    /\ handle[job.id].st = "pending"

----------------------------------------------------------------------------
\* C13: after every failed attempt that is not the last allowed one,
\* PrinterManager.print waits the retry delay and then calls
\* adapter.disconnect() followed by adapter.connect(), each once and in that
\* order, before the next adapter.print: every adapter.print after the first
\* is immediately preceded by a delay, a disconnect() and a connect().
RetryPrints ==
    {i \in 1..Len(trace) :
        trace[i] = "print" /\ \E j \in 1..(i - 1) : trace[j] = "print"}

C13_ReconnectCycle ==
    \A i \in RetryPrints :
        /\ i >= 5
        /\ trace[i - 3] = "delay"
        /\ trace[i - 2] = "disconnect"
        /\ trace[i - 1] = "connect"

----------------------------------------------------------------------------
\* C14: a failure of disconnect() or connect() in a reconnect step never
\* aborts the retry loop and never reaches the caller: the next adapter.print
\* attempt is still made, and a print that is rejected after entering the
\* loop has made maxRetries adapter.print calls, however many reconnect steps
\* failed.
ReconnectFailed == mgrPc \in {"reDisconnect", "reConnect"} /\ aop = "err"

C14_Rejection ==
    mgrPc = "rejected" =>
       \/ trace = <<"connect">> /\ mgrErr.kind # "exhausted"
       \/ /\ mgrErr.kind = "exhausted"
          /\ mgrErr.inner \notin {"serialClose", "serialOpen", "serialCreate",
                                  "usbConnect"}
          /\ PrintCalls = maxRetries

C14_ReconnectFailureSwallowed ==
    /\ []C14_Rejection
    /\ [][ReconnectFailed /\ ~ReconnectFailed' =>
             /\ mgrPc' = "attempt"
             /\ attempt' = attempt + 1
             /\ lastError' = lastError
             /\ trace' = Append(trace, "print")]_vars

\* A print rejected after maxRetries attempts, the last of which followed a
\* failed reconnect step.
C14_Witness ==
    /\ mgrPc = "rejected"
    /\ mgrErr.kind = "exhausted"
    /\ PrintCalls = maxRetries
    /\ CountOp(trace, "delay") >= 1
    /\ ~connected
    /\ printErrs[Len(printErrs)].kind = "notConnected"

----------------------------------------------------------------------------
\* C15: reconnect-step errors cannot mask the real print failure: when all
\* attempts fail, the last error embedded in the exhaustion message is a
\* failure of the adapter's print transport operation, never the error of an
\* attempt that failed only because a reconnect step failed.
TransportFailures == {"usbPrint", "serialWrite", "serialDrain"}

C15_LastErrorIsPrintFailure ==
    mgrPc = "rejected" /\ mgrErr.kind = "exhausted" /\ maxRetries >= 1 =>
       mgrErr.inner \in TransportFailures

----------------------------------------------------------------------------
\* C16: on every adapter variant, print called while isConnected() is false
\* fails with the "not connected" precondition error, starts no transport
\* operation and leaves the adapter state unchanged.
PrintCalled ==
    /\ Len(trace') = Len(trace) + 1
    /\ trace'[Len(trace')] = "print"

C16_PrintNotConnected ==
    [][PrintCalled /\ ~connected =>
         /\ aop' = "err"
         /\ aerr' = NotConnectedErr
         /\ UNCHANGED <<connected, port, leaked>>]_vars

\* print has just failed on a serial adapter that holds a port it could not
\* open.
C16_Witness ==
    /\ iface = "serial"
    /\ ~connected
    /\ port = "closed"
    /\ Len(trace) >= 2
    /\ trace[Len(trace)] = "print"
    /\ aop = "err"
    /\ aerr = NotConnectedErr

----------------------------------------------------------------------------
\* C17: connect() on an adapter that already holds an open transport tears
\* the existing transport down before it creates the new one: after any
\* sequence of connect and disconnect calls no transport that was opened is
\* left open and unreferenced.
C17_NoLeakedTransport == leaked = 0

----------------------------------------------------------------------------
\* C18: disconnect() is idempotent on every adapter variant: called on an
\* adapter that is disconnected (not connected and holding no open
\* transport) it succeeds without error and leaves it disconnected, and a
\* disconnect() that follows a disconnect() leaves the state the first one
\* left.
DisconnectCalled ==
    /\ Len(trace') = Len(trace) + 1
    /\ trace'[Len(trace')] = "disconnect"

AfterDisconnect == Len(trace) >= 1 /\ trace[Len(trace)] = "disconnect"

C18_DisconnectIdempotent ==
    [][DisconnectCalled =>
         /\ (~connected /\ port # "open" =>
               /\ aop' = "ok"
               /\ ~connected'
               /\ port' = "null"
               /\ UNCHANGED leaked)
         /\ (AfterDisconnect =>
               /\ aop' = "ok"
               /\ UNCHANGED <<connected, port, leaked>>)]_vars

\* A serial adapter that was connected and has been disconnected twice.
C18_Witness ==
    /\ iface = "serial"
    /\ Len(trace) >= 3
    /\ trace[1] = "connect"
    /\ trace[Len(trace) - 1] = "disconnect"
    /\ trace[Len(trace)] = "disconnect"
    /\ aop = "ok"
    /\ ~connected
    /\ port = "null"

----------------------------------------------------------------------------
\* The adapter.print calls of the current print that went past the
\* precondition checks and handed the payload to the transport (port.write,
\* printer.execute, the simulated output).
PreconditionFailures == {"notConnected", "noInstance", "portNotOpen"}

TransportWrites ==
    PrintCalls - Cardinality({k \in 1..Len(printErrs) :
                                 printErrs[k].kind \in PreconditionFailures})

\* C19 as stated: every submitted job reaches the device exactly once: its
\* payload is written to the transport exactly one time, never zero times
\* and never more than once.
C19_ExactlyOnceWrite ==
    mgrPc \in Done /\ job # NoJob => TransportWrites = 1

\* C19 amended: a job whose print resolves was written to the transport at
\* least once and at most maxRetries times, and the last write is the one
\* that completed without error; no job, resolved or rejected, is written
\* more than maxRetries times, and a rejected one may not be written at all.
C19_AtLeastOnceIfResolved ==
    /\ TransportWrites <= maxRetries
    /\ mgrPc = "resolved" =>
          /\ TransportWrites >= 1
          /\ trace[Len(trace)] = "print"
          /\ PrintCalls = Len(printErrs) + 1
          /\ mgrData = job.data

\* A job whose print resolved after its payload was written twice.
C19_Witness ==
    /\ mgrPc = "resolved"
    /\ job # NoJob
    /\ TransportWrites = 2

----------------------------------------------------------------------------
\* C20: the adapter's connected flag and transport handle change only inside
\* connect() and disconnect(): adapter.print, failing or succeeding, leaves
\* them unchanged (isConnected() only reads the flag), and during
\* PrinterManager.print the flag becomes false only through the disconnect
\* and connect calls of a reconnect step.
ConnectOps == {"mockConnect", "usbProbe", "serialOpen"}

PrintOps == {"mockPrint", "usbExecute", "serialWrite", "serialDrain"}

\* A step that calls connect(), calls disconnect(), or completes one of them.
InConnectOrDisconnect ==
    \/ aop' \in ConnectOps /\ aop' # aop
    \/ aerr'.kind = "serialCreate"
    \/ mgrPc = "delay" /\ mgrPc' = "reDisconnect"
    \/ aop \in ConnectOps \cup {"serialClose"}

\* A step that calls adapter.print or completes one of its operations.
InPrint ==
    \/ aop' \in PrintOps
    \/ aop \in PrintOps
    \/ aerr'.kind \in PreconditionFailures

C20_ConnectedFrame ==
    [][ /\ (<<connected, port, leaked>>' # <<connected, port, leaked>> =>
              InConnectOrDisconnect)
        /\ (InPrint => UNCHANGED <<connected, port, leaked>>)
        /\ (connected /\ ~connected' =>
              mgrPc \in {"delay", "reDisconnect", "reConnect"}) ]_vars

\* The first attempt of a print has failed in the transport and the adapter
\* still reports connected.
C20_Witness ==
    /\ mgrPc = "delay"
    /\ Len(printErrs) = 1
    /\ printErrs[1].kind \in TransportFailures
    /\ connected
    /\ port # "null"

----------------------------------------------------------------------------
\* C21: SerialAdapter.print resolves only after the write callback reported
\* success and, after it, the drain callback reported success: a write fault
\* rejects without drain being called, a drain fault rejects, and the call
\* never resolves before drain is confirmed.
C21_WriteThenDrain ==
    [][ /\ (aop = "serialWrite" /\ aop' # aop =>
              \/ aop' = "serialDrain"
              \/ aop' = "err" /\ aerr'.kind = "serialWrite")
        /\ (aop = "serialDrain" /\ aop' # aop =>
              \/ aop' = "ok"
              \/ aop' = "err" /\ aerr'.kind = "serialDrain")
        /\ (iface = "serial" /\ PrintCalled => aop' \in {"serialWrite", "err"})
        /\ (iface = "serial" /\ aop \in PrintOps /\ aop' = "ok" =>
              aop = "serialDrain") ]_vars

\* A serial print has resolved.
C21_Witness ==
    /\ iface = "serial"
    /\ Len(trace) >= 2
    /\ trace[Len(trace)] = "print"
    /\ aop = "ok"
    /\ connected
    /\ port = "open"

----------------------------------------------------------------------------
\* The code points a text stands for: a surrogate pair is one code point, a
\* lone surrogate reads as U+FFFD.
RECURSIVE CodePoints(_)
CodePoints(s) ==
    IF s = <<>> THEN <<>>
    ELSE IF Len(s) >= 2 /\ s[1] \in 55296..56319 /\ s[2] \in 56320..57343
      THEN <<65536 + (s[1] - 55296) * 1024 + (s[2] - 56320)>>
             \o CodePoints(SubSeq(s, 3, Len(s)))
    ELSE IF s[1] \in 55296..57343
      THEN <<65533>> \o CodePoints(Tail(s))
      ELSE <<s[1]>> \o CodePoints(Tail(s))

\* A UTF-8 decoder: the code points of a byte sequence, <<-1>> where the
\* bytes are not well-formed UTF-8.
ByteAt(b, i) == IF i <= Len(b) THEN b[i] ELSE 0

IsCont(x) == 128 <= x /\ x <= 191

RECURSIVE Utf8Decode(_)
Utf8Decode(b) ==
    IF b = <<>> THEN <<>>
    ELSE IF b[1] < 128
      THEN <<b[1]>> \o Utf8Decode(Tail(b))
    ELSE IF 194 <= b[1] /\ b[1] <= 223 /\ IsCont(ByteAt(b, 2))
      THEN <<(b[1] - 192) * 64 + (b[2] - 128)>>
             \o Utf8Decode(SubSeq(b, 3, Len(b)))
    ELSE IF 224 <= b[1] /\ b[1] <= 239 /\ IsCont(ByteAt(b, 2))
            /\ IsCont(ByteAt(b, 3))
      THEN <<(b[1] - 224) * 4096 + (b[2] - 128) * 64 + (b[3] - 128)>>
             \o Utf8Decode(SubSeq(b, 4, Len(b)))
    ELSE IF 240 <= b[1] /\ b[1] <= 244 /\ IsCont(ByteAt(b, 2))
            /\ IsCont(ByteAt(b, 3)) /\ IsCont(ByteAt(b, 4))
      THEN <<(b[1] - 240) * 262144 + (b[2] - 128) * 4096
               + (b[3] - 128) * 64 + (b[4] - 128)>>
             \o Utf8Decode(SubSeq(b, 5, Len(b)))
      ELSE <<-1>>

\* C22: for every payload the bytes SerialAdapter.print hands to the
\* transport, in one write, are 0x1B 0x40, the UTF-8 bytes of the payload,
\* 0x0A 0x0A and 0x1D 0x56 0x41 0x00, with nothing before, between or after.
C22_Segments ==
    wire # NoWire =>
       LET b == wire.bytes
           n == Len(b)
       IN  /\ n >= 8
           /\ \A i \in 1..n : b[i] \in 0..255
           /\ SubSeq(b, 1, 2) = <<27, 64>>
           /\ Utf8Decode(SubSeq(b, 3, n - 6)) = CodePoints(wire.data)
           /\ SubSeq(b, n - 5, n - 4) = <<10, 10>>
           /\ SubSeq(b, n - 3, n) = <<29, 86, 65, 0>>

C22_PrintBuffer ==
    /\ []C22_Segments
    /\ [][wire' # wire =>
            /\ PrintCalled
            /\ aop' = "serialWrite"
            /\ wire'.data = mgrData]_vars

\* The text U+1F600, a surrogate pair, has been written as F0 9F 98 80.
C22_Witness ==
    /\ wire.data = <<55357, 56832>>
    /\ wire.bytes = <<27, 64, 240, 159, 152, 128, 10, 10, 29, 86, 65, 0>>
    /\ aop = "ok"

----------------------------------------------------------------------------
\* C23: PrinterManager.print always terminates, given that every adapter call
\* and the delay terminate: it makes at most maxRetries adapter.print calls,
\* at most maxRetries - 1 reconnect cycles (none when maxRetries is below 1)
\* and at most one initial connect, whatever the pattern of adapter failures.
PrintRunning ==
    mgrPc \in {"initConnect", "attempt", "delay", "reDisconnect", "reConnect"}

C23_Budget ==
    /\ PrintCalls <= maxRetries
    /\ CountOp(trace, "delay") <= (IF maxRetries >= 1 THEN maxRetries - 1 ELSE 0)
    /\ CountOp(trace, "disconnect") <= CountOp(trace, "delay")
    /\ CountOp(trace, "connect") <= CountOp(trace, "disconnect") + 1
    /\ attempt <= maxRetries + 1

C23_PrintTerminates ==
    /\ []C23_Budget
    /\ (PrintRunning ~> mgrPc \in Done)

\* A print rejected after it used its whole budget: the initial connect,
\* maxRetries attempts and maxRetries - 1 reconnect cycles.
C23_Witness ==
    /\ mgrPc = "rejected"
    /\ maxRetries = MaxRetriesBound
    /\ trace[1] = "connect"
    /\ PrintCalls = maxRetries
    /\ CountOp(trace, "delay") = maxRetries - 1
    /\ CountOp(trace, "connect") = maxRetries

----------------------------------------------------------------------------
\* C24: the PrinterManager holds exactly one adapter, chosen once in the
\* constructor from the configured interface and never replaced afterwards;
\* constructing a manager with interface usb and no usbName, serial and no
\* serialPort, or an interface outside usb, serial and mock throws and yields
\* no manager.
BadConfig ==
    \/ config.interface = "usb" /\ config.usbName = ""
    \/ config.interface = "serial" /\ config.serialPort = ""
    \/ config.interface \notin {"usb", "serial", "mock"}

C24_Adapter ==
    /\ phase = "load" => iface = "none"
    /\ phase = "exited" => iface = "none" /\ BadConfig /\ trace = <<>>
    /\ phase \notin {"load", "exited"} =>
          /\ iface \in {"usb", "serial", "mock"}
          /\ iface = config.interface
          /\ ~BadConfig

C24_OneAdapter ==
    /\ []C24_Adapter
    /\ [][ /\ (iface' # iface => phase = "load" /\ iface = "none")
           /\ (phase = "load" /\ phase' # phase =>
                 phase' = (IF BadConfig THEN "exited" ELSE "init"))
           /\ config' = config ]_vars

\* A manager constructed for the serial interface whose adapter has been
\* connected, used and disconnected, the configuration also naming a USB
\* printer.
C24_Witness ==
    /\ config = [interface |-> "serial", usbName |-> "POS-80",
                 serialPort |-> "COM3"]
    /\ iface = "serial"
    /\ Len(trace) >= 3
    /\ trace[Len(trace)] = "disconnect"
    /\ aop = "ok"

----------------------------------------------------------------------------
\* C25: on POST /print a request is enqueued only after it passed the key
\* check and carries a non-empty, not whitespace-only text payload: an
\* unauthorized request ends with 401, a missing or empty payload with 400,
\* and neither reaches enqueue; a job whose handle rejects ends with 500 and
\* one whose handle resolves with 200.
Authorized ==
    \/ req.header = "good"
    \/ req.kind = "object" /\ req.key = "good"

\* The text the request carries, where it carries one.
CarriesText ==
    \/ req.kind = "text"
    \/ req.kind = "object" /\ req.data.type = "string"

VisibleText ==
    /\ CarriesText
    /\ \E i \in 1..Len(req.data.text) : req.data.text[i] \notin WhiteSpaceUnits

C25_Outcome ==
    /\ status \in {0, 200, 400, 401, 500}
    /\ status = 401 => ~Authorized
    /\ status = 400 => Authorized /\ ~VisibleText
    /\ jobs # <<>> =>
          Authorized /\ VisibleText /\ jobs = <<req.data.text>>
    /\ status \in {400, 401} => jobs = <<>> /\ printLog = <<>>
    /\ status = 200 => jobs # <<>> /\ handle[1].st = "resolved"
    /\ status = 500 => jobs # <<>> /\ handle[1].st = "rejected"

\* The step in which the route handles the request.
RouteTaken == status = 0 /\ jobs = <<>> /\ (status' # 0 \/ jobs' # <<>>)

C25_Route ==
    /\ []C25_Outcome
    /\ [][ /\ (status' # status => status = 0)
           /\ (RouteTaken /\ ~Authorized => status' = 401 /\ jobs' = <<>>)
           /\ (RouteTaken /\ Authorized /\ ~VisibleText =>
                 status' = 400 /\ jobs' = <<>>)
           /\ (RouteTaken /\ Authorized /\ VisibleText =>
                 status' = 0 /\ jobs' = <<req.data.text>>) ]_vars

\* A request authorized by the key field of its JSON body, with a bad header
\* key, whose job was rejected by the printer: answered 500.
C25_Witness ==
    /\ req.header = "bad"
    /\ req.kind = "object"
    /\ req.key = "good"
    /\ status = 500
    /\ handle[1].err.kind = "exhausted"

----------------------------------------------------------------------------
\* C26 as stated: with the mock adapter connect(), disconnect() and print()
\* on a connected adapter never fail, and consequently every job submitted
\* through the queue to a manager configured with the mock adapter resolves
\* unless it is removed by clear().
MockNeverFails ==
    iface = "mock" => aop # "err" /\ aerr = NoErr /\ printErrs = <<>>

RejectedOnlyByClear ==
    \A i \in JobIds : handle[i].st = "rejected" => Cleared(i)

C26_MockJobsResolve ==
    iface = "mock" => MockNeverFails /\ RejectedOnlyByClear

\* C26 amended: with the mock adapter no adapter call fails, and when
\* maxRetries is at least 1 every job settles resolved unless clear() removed
\* it; when maxRetries is below 1 every dispatched job is rejected with the
\* exhaustion error without the adapter's print being called.
C26_MockJobsResolveIfAttempted ==
    iface = "mock" =>
       /\ MockNeverFails
       /\ maxRetries >= 1 => RejectedOnlyByClear
       /\ maxRetries < 1 =>
             \A i \in JobIds :
                /\ handle[i].st # "resolved"
                /\ handle[i].st = "rejected" /\ ~Cleared(i) =>
                      handle[i].err = ExhaustedErr(maxRetries, NoErr)

\* With the mock adapter and maxRetries at least 1, one job has resolved and
\* a later one was removed by clear().
C26_Witness ==
    /\ iface = "mock"
    /\ maxRetries >= 1
    /\ \E i, j \in JobIds :
          i < j /\ handle[i].st = "resolved" /\ Cleared(j)

----------------------------------------------------------------------------
\* C27 as stated: print jobs are sent directly to the printer without delay
\* or queueing: an accepted print request is dispatched to the printer at the
\* moment it is accepted and never waits behind another job.
Accepted == Len(jobs') = Len(jobs) + 1

DispatchedNow ==
    /\ Len(printLog') = Len(printLog) + 1
    /\ printLog'[Len(printLog')].id = Len(jobs')
    /\ job'.id = Len(jobs')

C28_ConnectedHasHandle ==
    (iface \in {"usb", "serial"} /\ connected) => port # "null"

\* Once the shutdown handler has run, the adapter is not connected.
ExitedDisconnected == phase = "exited" => ~connected

PendingIds == QueueIds(queue)

InFlightIds == IF job = NoJob THEN {} ELSE {job.id}

SettledIds == {i \in 1..Len(handle) : handle[i].st # "pending"}

\* C29: job conservation. Every job passed to enqueue is in exactly one of
\* pending, in flight and settled; getQueueLength() is the number of pending
\* jobs and leaves the job in flight out; the number of submitted jobs is
\* getQueueLength() + (1 if a print is in flight) + the settled handles.
C29_JobConservation ==
    /\ Len(handle) = Len(jobs)
    /\ PendingIds \cup InFlightIds \cup SettledIds = 1..Len(jobs)
    /\ PendingIds \cap InFlightIds = {}
    /\ PendingIds \cap SettledIds = {}
    /\ InFlightIds \cap SettledIds = {}
    /\ getQueueLength = Cardinality(PendingIds)
    /\ (job # NoJob) = isProcessing
    /\ Len(jobs) = getQueueLength + (IF job # NoJob THEN 1 ELSE 0)
                     + Cardinality(SettledIds)

C29_Witness ==
    /\ Len(jobs) = 3
    /\ handle[1].st = "resolved"
    /\ job.id = 2
    /\ mgrPc = "attempt"
    /\ getQueueLength = 1
    /\ queue[1].id = 3

\* The print in progress was rejected by its initial connect, before the
\* retry loop.
InitialConnectFailed ==
    /\ attempt = 0
    /\ trace = <<"connect">>
    /\ mgrErr.kind \in {"usbConnect", "serialOpen", "serialCreate"}

ResolvedByLastPrint ==
    /\ (mgrPc = "resolved" =>
          /\ PrintCalls >= 1
          /\ trace[Len(trace)] = "print"
          /\ Len(printErrs) = PrintCalls - 1)
    /\ (maxRetries <= 0 => PrintCalls = 0 /\ mgrPc # "resolved")

ResolvesFromSuccess ==
    mgrPc' = "resolved" /\ mgrPc # "resolved" => PrintSucceeded

\* C30: PrinterManager.print resolves only if an adapter.print call of that
\* invocation succeeded, whatever maxRetries is; with maxRetries <= 0 no
\* adapter.print call is made and the call rejects with the exhaustion error.
C30_ResolvesOnlyOnSuccess ==
    /\ [](/\ ResolvedByLastPrint
          /\ (maxRetries <= 0 /\ mgrPc = "rejected" =>
                mgrErr = ExhaustedErr(maxRetries, NoErr)))
    /\ [][ResolvesFromSuccess]_vars

\* C30 as it holds: the same, where with maxRetries <= 0 the call rejects
\* with the exhaustion error once its initial connect, if it made one, has
\* succeeded, and with the connect error when that connect failed.
C30_ResolvesOnlyOnSuccessOrConnectError ==
    /\ [](/\ ResolvedByLastPrint
          /\ (maxRetries <= 0 /\ mgrPc = "rejected" =>
                \/ mgrErr = ExhaustedErr(maxRetries, NoErr)
                \/ InitialConnectFailed)
          /\ (maxRetries <= 0 /\ mgrPc = "rejected" /\ connected =>
                mgrErr = ExhaustedErr(maxRetries, NoErr)))
    /\ [][ResolvesFromSuccess]_vars

\* A print with maxRetries = 0 on a connected printer: rejected as exhausted
\* without any adapter.print call.
C30_Witness ==
    /\ maxRetries = 0
    /\ connected
    /\ mgrPc = "rejected"
    /\ PrintCalls = 0
    /\ mgrErr = ExhaustedErr(0, NoErr)
    /\ printLog[Len(printLog)].res = "err"

\* The current attempt is the last allowed one and its adapter.print failed.
LastAttemptFailed ==
    mgrPc = "attempt" /\ aop = "err" /\ attempt >= maxRetries

\* The print of the previous job was rejected after its last attempt and no
\* other print has started since.
AfterExhaustion ==
    /\ Len(printLog) > 0
    /\ printLog[Len(printLog)].res = "err"
    /\ printLog[Len(printLog)].err.kind = "exhausted"
    /\ mgrPc \in {"rejected", "idle"}

InitialConnectMade == mgrPc' = "initConnect" /\ trace' = <<"connect">>

NoFinalReconnect ==
    /\ (mgrPc = "attempt" /\ ~PrintEntered => UNCHANGED <<connected, port>>)
    /\ (LastAttemptFailed /\ mgrPc' # "attempt" =>
          /\ mgrPc' = "rejected"
          /\ mgrErr'.kind = "exhausted"
          /\ aop' = "none"
          /\ UNCHANGED <<trace, connected, port>>)
    /\ (AfterExhaustion /\ ~PrintEntered => UNCHANGED <<connected, port>>)
    /\ (AfterExhaustion /\ PrintEntered =>
          /\ InitialConnectMade <=> ~connected
          /\ ~InitialConnectMade => /\ UNCHANGED connected
                                    /\ CountOp(trace', "connect") = 0)

\* C31: after the last allowed attempt fails, print makes no delay, no
\* disconnect and no connect before it rejects, so the adapter keeps the
\* connection state it had when that attempt started (the one the preceding
\* reconnect step produced), and the print of the next job makes its initial
\* connect() exactly when that state is disconnected.
C31_NoFinalReconnect == [][NoFinalReconnect]_vars

\* The job after one rejected as exhausted on a disconnected adapter is making
\* its initial connect.
C31_Witness ==
    /\ maxRetries >= 2
    /\ Len(printLog) >= 2
    /\ printLog[Len(printLog) - 1].res = "err"
    /\ printLog[Len(printLog) - 1].err.kind = "exhausted"
    /\ printLog[Len(printLog) - 1].err.inner = "notConnected"
    /\ mgrPc = "initConnect"
    /\ trace = <<"connect">>
    /\ job.id = printLog[Len(printLog)].id

====
